---- MODULE Spec2Model ----
(***************************************************************************)
(* Road-defect reporting backend: the report-ingestion transaction         *)
(* (submitReport / updateAggregatedLocation) over the MySQL tables         *)
(* reports, pothole_detections, road_anomalies and aggregated_locations,   *)
(* and the work lifecycle handlers over aggregated_locations and           *)
(* work_assignments.                                                       *)
(*                                                                         *)
(* Storage is InnoDB at its default isolation level (REPEATABLE READ):     *)
(* a plain SELECT is a consistent read against the transaction's read      *)
(* view, which is created by the first consistent read of the transaction; *)
(* UPDATE and INSERT act on the latest row version, take the row lock and  *)
(* wait while another open transaction holds it.                           *)
(***************************************************************************)
EXTENDS Integers, Sequences, FiniteSets, TLC

\* ---------------------------------------------------------------- bounds
NumTx == 2
NumReportIds == 2
NumPoints == 2
MaxRows == 2
MaxAssignments == 2
MaxBatch == 2
MaxRequests == 3
MaxEntries == 9
NumContractors == 2
MaxBatchCalls == 1

Tx == 1..NumTx
RIDs == 1..NumReportIds

\* ---------------------------------------------------------------- values
NoAnomalies == [np |-> 0 - 1, na |-> 0]
NoRow == "absent"
NoSnap == [open |-> FALSE, rows |-> {}]
NoSev == "none"
Null == "null"
NoDet == [kind |-> "none", grid |-> <<>>, severity |-> "none"]

Severities == {"Low", "Medium", "High"}
\* a severity text that is none of the three
OtherSev == "Critical"

SevInputs == Severities \cup {NoSev, OtherSev}

severityOrder == [s \in Severities |-> CASE s = "Low" -> 1 [] s = "Medium" -> 2 [] s = "High" -> 3]

Max(a, b) == IF a >= b THEN a ELSE b

Abs(x) == IF x < 0 THEN 0 - x ELSE x

\* Coordinates are held in units of 10^-5 degree. The request's points.
PointList ==
  << <<1306003, 8027998>>,
     <<1100004, 7699996>>,
     <<1306000, 8028000>>,
     <<1100000, 7700000>> >>

Points == {PointList[i] : i \in 1..NumPoints}

\* Number.prototype.toFixed(4): the sign is taken from the value itself and
\* the magnitude is rounded to 4 decimals, so the text is sign + digits.
toFixed4(x) == [neg |-> x < 0, mag |-> (Abs(x) + 5) \div 10]

gridId(lat, lng) == <<toFixed4(lat), toFixed4(lng)>>

\* `x || "Medium"`
severityOrMedium(s) == IF s = NoSev THEN "Medium" ELSE s

\* Math.max(0, 100 - penalty)
\* Faulty variant: the penalty is not floored at 0.
healthScore_NoFloor(np, na) == 100 - ((np * 15) + (na * 5))

healthScore(np, na) == Max(0, 100 - ((np * 15) + (na * 5)))

\* a toFixed(4) text stored in a DECIMAL(10,4) column, in units of 10^-4
decimal104(txt) == IF txt.neg THEN 0 - txt.mag ELSE txt.mag

\* A number stored in a DECIMAL(5,2) column, in hundredths; a value out of
\* range is stored as the nearest bound.
decimal52(n) == IF n * 100 > 99999 THEN 99999 ELSE IF n * 100 < 0 - 99999 THEN 0 - 99999 ELSE n * 100

\* Faulty variant: the incoming severity always wins.
newHighest_Incoming(severity, current) == severity

\* severityOrder[severity] > severityOrder[current] ? severity : current
newHighest(severity, current) ==
  IF severityOrder[severity] > severityOrder[current] THEN severity ELSE current

\* ---------------------------------------------------------------- state
VARIABLES
  reports,   \* rows of table reports; tx = 0 committed, else the inserting transaction
  dets,      \* rows of pothole_detections and road_anomalies (kind tells which)
  agg,       \* rows of aggregated_locations, latest version of each row
  wa,        \* rows of work_assignments
  undo,      \* per transaction: before-images of the agg rows it updated
  ins,       \* per transaction: grid ids of the agg rows it inserted
  snap,      \* per transaction: its read view of aggregated_locations
  pc,        \* per request: the statement it is about to run
  cur,       \* per request: its locals
  resp,      \* the call that ended at the last step, if one did: its HTTP
             \* response (code 0: none was sent) and its use of the connection
  served,    \* number of work lifecycle requests answered so far
  pre        \* history: the tables as they were when the running call began,
             \* its writes so far, and the locations a rolled-back batch had updated

dbVars == <<reports, dets, agg>>
txVars == <<undo, ins, snap>>
ingestVars == <<reports, dets, undo, ins, snap, pc, cur>>
vars == <<reports, dets, agg, wa, undo, ins, snap, pc, cur, resp, served, pre>>

Idle == [report_id |-> 0, np |-> 0, na |-> 0, k |-> 0, det |-> NoDet, sel |-> NoRow]

\* What a call did with a pool connection of its own: the number of its calls
\* of getConnection, of beginTransaction, of commit or rollback that
\* returned, and of release.
NoConn == [acquired |-> 0, begun |-> 0, ended |-> 0, released |-> 0]

\* const connection = await db.promise().getConnection()
getConnection == [NoConn EXCEPT !.acquired = @ + 1]

\* await connection.beginTransaction(), the first statement of the try block
beginTransaction(c) == [c EXCEPT !.begun = @ + 1]

\* await connection.commit(), or await connection.rollback() that returns
endTransaction(c) == [c EXCEPT !.ended = @ + 1]

\* Faulty variant: an exit that leaves the connection checked out.
release_Skipped(c) == c

\* finally { connection.release() }
release(c) == [c EXCEPT !.released = @ + 1]

\* return res.status(400) or res.status(404) inside the try block
earlyReturn == release(beginTransaction(getConnection))

\* the try block runs to connection.commit() and the success response
committed == release(endTransaction(beginTransaction(getConnection)))

\* the catch block; when rollback itself throws, the error leaves the handler
\* through the finally block and no response is sent
caught(rollbackThrows) ==
  release(IF rollbackThrows THEN beginTransaction(getConnection)
                            ELSE endTransaction(beginTransaction(getConnection)))

\* report_id is the id the answered request carried (0 when it carried none).
\* locationId is the locationId of the answered request (0 when it has none).
NoResp == [t |-> 0, op |-> "none", code |-> 0, report_id |-> 0, healthScore |-> 0,
           locationId |-> 0, assignmentId |-> 0, assignmentUpdated |-> FALSE,
           conn |-> NoConn]

OnConnection(r, c) == [r EXCEPT !.conn = c]

Response(t, op, code, rid, hs) ==
  [NoResp EXCEPT !.t = t, !.op = op, !.code = code, !.report_id = rid, !.healthScore = hs]

\* latitude and longitude of a row are held in units of 10^-4 degree
\* (DECIMAL(10,4)); first_reported_at tells which statement stamped it.
\* Sample rows of the database initialisation script: 'Gandhi Road' and
\* 'Mount Road', the latter with its sample assignment.
SeedLocations ==
  {[id |-> 4, grid_id |-> gridId(1306000, 8028000),
    latitude |-> 130600, longitude |-> 802800, first_reported_at |-> "seed",
    total_potholes |-> 5, total_patchy |-> 0, highest_severity |-> "Low",
    report_count |-> 3, status |-> "pending", verified_at |-> FALSE],
   [id |-> 2, grid_id |-> gridId(1305690, 8024250),
    latitude |-> 130569, longitude |-> 802425, first_reported_at |-> "seed",
    total_potholes |-> 4, total_patchy |-> 1, highest_severity |-> "Medium",
    report_count |-> 4, status |-> "assigned", verified_at |-> FALSE]}

SeedAssignments ==
  {[id |-> 1, aggregated_location_id |-> 2, contractor_id |-> 1, due_date |-> "seed",
    status |-> "assigned", completed_at |-> FALSE, admin_notes |-> Null, notes |-> "seed"]}

\* Table contractors: the sample contractors, all active. No statement of the
\* program sets contractors.user_id (or creates an account with role
\* 'contractor'); contractor 1 is taken to have been linked to account 1 by
\* hand, the others are unlinked (user_id NULL, written 0).
contractors ==
  {[id |-> i, user_id |-> IF i = 1 THEN 1 ELSE 0, is_active |-> TRUE] : i \in 1..NumContractors}

Init ==
  /\ reports = {}
  /\ dets = {}
  /\ agg = SeedLocations
  /\ wa = SeedAssignments
  /\ undo = [t \in Tx |-> {}]
  /\ ins = [t \in Tx |-> {}]
  /\ snap = [t \in Tx |-> NoSnap]
  /\ pc = [t \in Tx |-> "idle"]
  /\ cur = [t \in Tx |-> Idle]
  /\ resp = NoResp
  /\ served = 0
  /\ pre = [reports |-> {}, dets |-> {}, agg |-> SeedLocations, writes |-> 0, touched |-> {}]

\* ---------------------------------------------------------------- storage
\* The row of INSERT INTO reports; tx is the open transaction that wrote it
\* (0 once committed).
reportRow(body, t) ==
  [report_id |-> body.report_id,
   total_potholes |-> body.anomalies.np,
   total_patchy_roads |-> body.anomalies.na,
   health_score |-> decimal52(healthScore(body.anomalies.np, body.anomalies.na)),
   status |-> "pending", tx |-> t]

\* Grid ids of the rows transaction t has written and not yet committed.
Written(t) == ins[t] \cup {r.grid_id : r \in undo[t]}

\* Faulty variant: an INSERT INTO reports that does not wait for an open
\* transaction holding the same report_id.
ReportIdLocked_Never(rid) == FALSE

\* The unique index on reports.report_id: the key is held by the open
\* transaction that inserted it, and a second INSERT of it waits.
ReportIdLocked(rid) == \E r \in reports : r.report_id = rid /\ r.tx # 0

\* Faulty variant: writes that do not wait for the row lock.
LockedByOther_Never(t, g) == FALSE

LockedByOther(t, g) == \E u \in Tx \ {t} : g \in Written(u)

\* The committed version of aggregated_locations.
CommittedAgg ==
  {r \in agg : \A t \in Tx : r.grid_id \notin Written(t)} \cup UNION {undo[t] : t \in Tx}

\* What a read view keeps of a row: existence and highest_severity, the
\* only parts of `SELECT *` that updateAggregatedLocation uses.
ReadView == [open |-> TRUE, rows |-> {<<r.grid_id, r.highest_severity>> : r \in CommittedAgg}]

RECURSIVE Announced(_)
\* Detections announced by the report rows of a set (stored or still open).
Announced(rs) ==
  IF rs = {} THEN 0
  ELSE LET r == CHOOSE x \in rs : TRUE
       IN r.total_potholes + r.total_patchy_roads + Announced(rs \ {r})

\* Faulty variant: no uniqueness constraint on report_id.
ReportIdTaken_Never(rid) == FALSE

\* reports.report_id is UNIQUE
ReportIdTaken(rid) == \E r \in reports : r.report_id = rid

\* Faulty variant: no uniqueness constraint on grid_id.
GridIdTaken_Never(g) == FALSE

\* aggregated_locations.grid_id is UNIQUE
GridIdTaken(g) == \E r \in agg : r.grid_id = g

\* AUTO_INCREMENT: a fresh id above every id in the table.
NextId(rows) == IF rows = {} THEN 1 ELSE (CHOOSE m \in {r.id : r \in rows} : \A r \in rows : r.id <= m) + 1

\* Faulty variant: a rollback that leaves the merged cells as they are.
RolledBack_KeepsMerges(t) ==
  /\ reports' = {r \in reports : r.tx # t}
  /\ dets' = {d \in dets : d.report_id # cur[t].report_id}
  /\ agg' = agg
  /\ undo' = [undo EXCEPT ![t] = {}]
  /\ ins' = [ins EXCEPT ![t] = {}]
  /\ snap' = [snap EXCEPT ![t] = NoSnap]
  /\ pc' = [pc EXCEPT ![t] = "idle"]
  /\ cur' = [cur EXCEPT ![t] = Idle]
  /\ UNCHANGED wa

\* connection.rollback(): every write of the transaction is undone.
RolledBack(t) ==
  /\ reports' = {r \in reports : r.tx # t}
  /\ dets' = {d \in dets : d.report_id # cur[t].report_id}
  /\ agg' = {r \in agg : r.grid_id \notin Written(t)} \cup undo[t]
  /\ undo' = [undo EXCEPT ![t] = {}]
  /\ ins' = [ins EXCEPT ![t] = {}]
  /\ snap' = [snap EXCEPT ![t] = NoSnap]
  /\ pc' = [pc EXCEPT ![t] = "idle"]
  /\ cur' = [cur EXCEPT ![t] = Idle]
  /\ UNCHANGED wa

\* catch block of submitReport
SubmitCatch(t, errCode) ==
  /\ RolledBack(t)
  /\ resp' = OnConnection(Response(t, "submitReport",
                                   IF errCode = "ER_DUP_ENTRY" THEN 409 ELSE 500,
                                   cur[t].report_id, 0), caught(FALSE))

\* Request bodies: the accepted ones, and one for each missing required field.
Bodies ==
  [report_id : RIDs, device_id : {TRUE}, authed : BOOLEAN,
   anomalies : {c \in [np : 0..MaxRows, na : 0..MaxRows] : c.np + c.na <= MaxRows}]
  \cup {[report_id |-> 0, device_id |-> TRUE, authed |-> FALSE, anomalies |-> [np |-> 1, na |-> 0]],
        [report_id |-> 1, device_id |-> FALSE, authed |-> FALSE, anomalies |-> [np |-> 1, na |-> 0]],
        [report_id |-> 1, device_id |-> TRUE, authed |-> TRUE, anomalies |-> NoAnomalies]}

\* ---------------------------------------------------------------- submitReport
\* getConnection, beginTransaction, validation, user lookup, INSERT INTO reports.
\* The INSERT waits while another open transaction holds the same report_id.
SubmitBegin(t, body) ==
  /\ pc[t] = "idle"
  /\ IF body.report_id = 0 \/ ~body.device_id \/ body.anomalies = NoAnomalies
     THEN /\ resp' = OnConnection(Response(t, "submitReport", 400, body.report_id, 0),
                                   earlyReturn)
          /\ UNCHANGED <<dbVars, wa, txVars, pc, cur>>
     ELSE /\ Announced(reports) + body.anomalies.np + body.anomalies.na <= MaxRows
          /\ ~ReportIdLocked(body.report_id)
          /\ IF ReportIdTaken(body.report_id)
             THEN /\ resp' = OnConnection(Response(t, "submitReport", 409, body.report_id, 0),
                                           caught(FALSE))
                  /\ UNCHANGED <<dbVars, wa, txVars, pc, cur>>
             ELSE /\ reports' = reports \cup {reportRow(body, t)}
                  /\ cur' = [cur EXCEPT ![t] =
                        [Idle EXCEPT !.report_id = body.report_id,
                                     !.np = body.anomalies.np, !.na = body.anomalies.na]]
                  \* anonymous request: SELECT id FROM users is the first consistent read
                  /\ snap' = [snap EXCEPT ![t] = IF body.authed THEN NoSnap ELSE ReadView]
                  /\ pc' = [pc EXCEPT ![t] = IF body.anomalies.np + body.anomalies.na = 0
                                             THEN "commit" ELSE "det"]
                  /\ resp' = NoResp
                  /\ UNCHANGED <<dets, agg, wa, undo, ins>>

\* The k-th entry: INSERT INTO pothole_detections / road_anomalies, then
\* updateAggregatedLocation's SELECT * FROM aggregated_locations WHERE grid_id = ?
SubmitStoreDetection(t, pt, sev) ==
  /\ LET kind == IF cur[t].k < cur[t].np THEN "pothole" ELSE "patchy"
         g == gridId(pt[1], pt[2])
         view == IF snap[t].open THEN snap[t] ELSE ReadView
         own == {r \in agg : r.grid_id = g /\ g \in Written(t)}
         seen == IF own # {} THEN {r.highest_severity : r \in own}
                 ELSE {v[2] : v \in {w \in view.rows : w[1] = g}}
     IN /\ dets' = dets \cup
              {[report_id |-> cur[t].report_id, n |-> cur[t].k, kind |-> kind,
                latitude |-> pt[1], longitude |-> pt[2],
                severity |-> severityOrMedium(sev)]}
        /\ snap' = [snap EXCEPT ![t] = view]
        /\ cur' = [cur EXCEPT
              ![t].det = [kind |-> kind, grid |-> g, severity |-> severityOrMedium(sev)],
              ![t].sel = IF seen = {} THEN NoRow ELSE CHOOSE s \in seen : TRUE]
  /\ pc' = [pc EXCEPT ![t] = "write"]
  /\ resp' = NoResp
  /\ UNCHANGED <<reports, agg, wa, undo, ins>>

\* The severity columns of pothole_detections and road_anomalies are ENUMs of
\* the three severities: the INSERT of any other text throws (strict SQL
\* mode, the server default) and the catch block answers 500.
SubmitInsertDetection(t, pt, sev) ==
  /\ pc[t] = "det"
  /\ IF severityOrMedium(sev) \notin Severities
     THEN SubmitCatch(t, "WARN_DATA_TRUNCATED")
     ELSE SubmitStoreDetection(t, pt, sev)

\* Faulty variant: a merge that writes the row as a new cell would be written,
\* status and first report time included.
mergedRow_AsNew(r, d, current) ==
  [r EXCEPT !.total_potholes = @ + (IF d.kind = "pothole" THEN 1 ELSE 0),
            !.total_patchy = @ + (IF d.kind = "patchy" THEN 1 ELSE 0),
            !.highest_severity = newHighest(d.severity, current),
            !.report_count = @ + 1,
            !.status = "pending", !.verified_at = FALSE, !.first_reported_at = "insert"]

\* Faulty variant: a merge that does not count the report.
mergedRow_NoCount(r, d, current) ==
  [r EXCEPT !.total_potholes = @ + (IF d.kind = "pothole" THEN 1 ELSE 0),
            !.total_patchy = @ + (IF d.kind = "patchy" THEN 1 ELSE 0),
            !.highest_severity = newHighest(d.severity, current)]

\* UPDATE aggregated_locations SET ... : counts are relative to the row, the
\* severity is the value computed from the row the SELECT returned.
mergedRow(r, d, current) ==
  [r EXCEPT !.total_potholes = @ + (IF d.kind = "pothole" THEN 1 ELSE 0),
            !.total_patchy = @ + (IF d.kind = "patchy" THEN 1 ELSE 0),
            !.highest_severity = newHighest(d.severity, current),
            !.report_count = @ + 1]

\* Faulty variant: a new cell that counts its first detection under both types.
insertedRow_BothTypes(id, d) ==
  [id |-> id, grid_id |-> d.grid,
   latitude |-> decimal104(d.grid[1]), longitude |-> decimal104(d.grid[2]),
   first_reported_at |-> "insert", total_potholes |-> 1, total_patchy |-> 1,
   highest_severity |-> d.severity,
   report_count |-> 1, status |-> "pending", verified_at |-> FALSE]

\* INSERT INTO aggregated_locations ... ; report_count and status take their defaults.
insertedRow(id, d) ==
  [id |-> id, grid_id |-> d.grid,
   latitude |-> decimal104(d.grid[1]), longitude |-> decimal104(d.grid[2]),
   first_reported_at |-> "insert",
   total_potholes |-> IF d.kind = "pothole" THEN 1 ELSE 0,
   total_patchy |-> IF d.kind = "patchy" THEN 1 ELSE 0,
   highest_severity |-> d.severity,
   report_count |-> 1, status |-> "pending", verified_at |-> FALSE]

AfterWrite(t) ==
  /\ cur' = [cur EXCEPT ![t].k = @ + 1, ![t].det = NoDet, ![t].sel = NoRow]
  /\ pc' = [pc EXCEPT ![t] = IF cur[t].k + 1 < cur[t].np + cur[t].na THEN "det" ELSE "commit"]
  /\ resp' = NoResp

\* updateAggregatedLocation: the UPDATE of the existing row
AggUpdate(t) ==
  LET g == cur[t].det.grid
      d == cur[t].det
      rows == {r \in agg : r.grid_id = g}
  IN /\ ~LockedByOther(t, g)
     /\ agg' = (agg \ rows) \cup {mergedRow(r, d, cur[t].sel) : r \in rows}
     /\ undo' = [undo EXCEPT ![t] = IF g \in Written(t) THEN @ ELSE @ \cup rows]
     /\ AfterWrite(t)
     /\ UNCHANGED <<reports, dets, wa, ins, snap>>

\* updateAggregatedLocation: the INSERT of a new row (grid_id is UNIQUE)
AggInsert(t) ==
  LET g == cur[t].det.grid
      d == cur[t].det
  IN /\ ~LockedByOther(t, g)
     /\ IF GridIdTaken(g)
        THEN SubmitCatch(t, "ER_DUP_ENTRY")
        ELSE /\ agg' = agg \cup {insertedRow(NextId(agg), d)}
             /\ ins' = [ins EXCEPT ![t] = @ \cup {g}]
             /\ AfterWrite(t)
             /\ UNCHANGED <<reports, dets, wa, undo, snap>>

AggWrite(t) ==
  /\ pc[t] = "write"
  /\ IF cur[t].sel # NoRow THEN AggUpdate(t) ELSE AggInsert(t)

\* connection.commit() and the 201 response
SubmitCommit(t) ==
  /\ pc[t] = "commit"
  /\ reports' = {[r EXCEPT !.tx = IF @ = t THEN 0 ELSE @] : r \in reports}
  /\ undo' = [undo EXCEPT ![t] = {}]
  /\ ins' = [ins EXCEPT ![t] = {}]
  /\ snap' = [snap EXCEPT ![t] = NoSnap]
  /\ pc' = [pc EXCEPT ![t] = "idle"]
  /\ cur' = [cur EXCEPT ![t] = Idle]
  /\ resp' = OnConnection(Response(t, "submitReport", 201, cur[t].report_id,
                                   healthScore(cur[t].np, cur[t].na)), committed)
  /\ UNCHANGED <<dets, agg, wa>>

\* a statement of the open transaction throws an error other than ER_DUP_ENTRY
SubmitFail(t) ==
  /\ pc[t] # "idle"
  /\ SubmitCatch(t, "ER_OTHER")

\* the connection of the open transaction is lost: the running statement
\* throws, connection.rollback() throws in the catch block, and the server
\* discards the transaction of the closed session
SubmitRollbackFails(t) ==
  /\ pc[t] # "idle"
  /\ RolledBack(t)
  /\ resp' = OnConnection(Response(t, "submitReport", 0, cur[t].report_id, 0), caught(TRUE))

\* ---------------------------------------------------------------- work lifecycle
\* The handlers below issue their statements on the pool one after another;
\* each is modelled as one step.

\* Request values: a missing locationId / contractorId is 0, a missing
\* status, date or note is Null.
LocationIds == {0} \cup {r.id : r \in agg} \cup {NextId(agg)}

ContractorIds == 0..(NumContractors + 1)

AssignmentIds == {a.id : a \in wa} \cup {NextId(wa)}

Notes == {Null, "note"}

\* dueDate and notes of an assign request: both missing or both given
AssignInputs == {[dueDate |-> Null, notes |-> Null], [dueDate |-> "2026-12-01", notes |-> "note"]}

\* lists of a batch request; the id after the last row stands for every id
\* that matches no row
LocationLists == UNION {[1..n -> LocationIds \ {0}] : n \in 0..MaxBatch}

validStatuses == {"assigned", "in_progress", "pending_verification", "completed", "verified"}

jobValidStatuses == {"assigned", "in_progress", "completed", "verified"}

StatusInputs == validStatuses \cup {Null, "fixed"}

UserIds == {1, 2}

Range(f) == {f[i] : i \in DOMAIN f}

LifeResponse(op, code, locationId, assignmentId, assignmentUpdated) ==
  [NoResp EXCEPT !.op = op, !.code = code, !.locationId = locationId,
                 !.assignmentId = assignmentId, !.assignmentUpdated = assignmentUpdated]

locationExists(locationId) == \E r \in agg : r.id = locationId

activeContractor(contractorId) == \E c \in contractors : c.id = contractorId /\ c.is_active

\* UPDATE aggregated_locations SET status = ? WHERE id IN ids
locationStatus(ids, status) ==
  {IF r.id \in ids THEN [r EXCEPT !.status = status] ELSE r : r \in agg}

\* Faulty variant: verification that does not stamp verified_at.
locationVerified_NoStamp(ids) == locationStatus(ids, "verified")

\* UPDATE aggregated_locations SET status = 'verified', verified_at = NOW() WHERE id IN ids
locationVerified(ids) ==
  {IF r.id \in ids THEN [r EXCEPT !.status = "verified", !.verified_at = TRUE] ELSE r : r \in agg}

\* UPDATE work_assignments SET status = ?, completed_at = NOW(), admin_notes = ?
\* WHERE aggregated_location_id IN ids AND status IN from
assignmentsClosed(ids, from, status, adminNotes) ==
  {IF a.aggregated_location_id \in ids /\ a.status \in from
   THEN [a EXCEPT !.status = status, !.completed_at = TRUE, !.admin_notes = adminNotes]
   ELSE a : a \in wa}

\* Faulty variant: the lookup of open assignments finds nothing.
existingOpen_None(locationId) == {}

\* SELECT id FROM work_assignments WHERE aggregated_location_id = ?
\*   AND status NOT IN ('completed', 'verified')
existingOpen(locationId) ==
  {a \in wa : a.aggregated_location_id = locationId /\ a.status \notin {"completed", "verified"}}

\* INSERT INTO work_assignments (aggregated_location_id, contractor_id, due_date, notes)
newAssignment(id, locationId, contractorId, dueDate, notes) ==
  [id |-> id, aggregated_location_id |-> locationId, contractor_id |-> contractorId,
   due_date |-> dueDate, status |-> "assigned", completed_at |-> FALSE,
   admin_notes |-> Null, notes |-> notes]

\* POST /api/reports/assignments. existing[0] of a SELECT without ORDER BY is
\* any of the open rows.
createWorkAssignment(locationId, contractorId, dueDate, notes) ==
  /\ IF locationId = 0 \/ contractorId = 0
     THEN /\ resp' = LifeResponse("createWorkAssignment", 400, locationId, 0, FALSE)
          /\ UNCHANGED <<agg, wa>>
     ELSE IF ~locationExists(locationId) \/ ~activeContractor(contractorId)
     THEN /\ resp' = LifeResponse("createWorkAssignment", 404, locationId, 0, FALSE)
          /\ UNCHANGED <<agg, wa>>
     ELSE IF existingOpen(locationId) # {}
     THEN \E e \in existingOpen(locationId) :
            /\ wa' = {IF a.id = e.id
                      THEN [a EXCEPT !.contractor_id = contractorId, !.due_date = dueDate,
                                     !.notes = notes, !.status = "assigned"]
                      ELSE a : a \in wa}
            /\ agg' = locationStatus({locationId}, "assigned")
            /\ resp' = LifeResponse("createWorkAssignment", 200, locationId, e.id, FALSE)
     ELSE /\ Cardinality(wa) < MaxAssignments
          /\ wa' = wa \cup {newAssignment(NextId(wa), locationId, contractorId, dueDate, notes)}
          /\ agg' = locationStatus({locationId}, "assigned")
          /\ resp' = LifeResponse("createWorkAssignment", 201, locationId, NextId(wa), FALSE)
  /\ UNCHANGED ingestVars

\* POST /api/admin/assign
assignToContractor(locationId, contractorId, dueDate, notes) ==
  /\ IF ~locationExists(locationId) \/ ~activeContractor(contractorId)
     THEN /\ resp' = LifeResponse("assignToContractor", 404, locationId, 0, FALSE)
          /\ UNCHANGED <<agg, wa>>
     ELSE /\ Cardinality(wa) < MaxAssignments
          /\ wa' = wa \cup {newAssignment(NextId(wa), locationId, contractorId, dueDate, notes)}
          /\ agg' = locationStatus({locationId}, "assigned")
          /\ resp' = LifeResponse("assignToContractor", 201, locationId, NextId(wa), FALSE)
  /\ UNCHANGED ingestVars

\* POST /api/admin/assign/batch, one transaction. An INSERT naming a location
\* that does not exist fails on the foreign key and the catch block rolls back.
batchAssign(locationIds, contractorId, dueDate, notes, lost) ==
  /\ IF locationIds = <<>> \/ contractorId = 0
     THEN /\ ~lost
          /\ resp' = OnConnection(LifeResponse("batchAssign", 400, 0, 0, FALSE), earlyReturn)
          /\ UNCHANGED <<agg, wa>>
     ELSE IF ~activeContractor(contractorId)
     THEN /\ ~lost
          /\ resp' = OnConnection(LifeResponse("batchAssign", 404, 0, 0, FALSE), earlyReturn)
          /\ UNCHANGED <<agg, wa>>
     ELSE IF lost
     THEN /\ resp' = OnConnection(LifeResponse("batchAssign", 0, 0, 0, FALSE), caught(TRUE))
          /\ UNCHANGED <<agg, wa>>
     ELSE IF \E i \in DOMAIN locationIds : ~locationExists(locationIds[i])
     THEN /\ resp' = OnConnection(LifeResponse("batchAssign", 500, 0, 0, FALSE), caught(FALSE))
          /\ UNCHANGED <<agg, wa>>
     ELSE /\ Cardinality(wa) + Len(locationIds) <= MaxAssignments
          /\ wa' = wa \cup {newAssignment(NextId(wa) + i - 1, locationIds[i], contractorId,
                                          dueDate, notes) : i \in DOMAIN locationIds}
          /\ agg' = locationStatus(Range(locationIds), "assigned")
          /\ resp' = OnConnection(LifeResponse("batchAssign", 201, 0, NextId(wa), FALSE),
                                   committed)
  /\ UNCHANGED ingestVars

\* PATCH /api/reports/assignments/:assignmentId
updateWorkAssignment(assignmentId, status, notes) ==
  /\ IF (status # Null /\ status \notin validStatuses) \/ (status = Null /\ notes = Null)
     THEN /\ resp' = LifeResponse("updateWorkAssignment", 400, 0, assignmentId, FALSE)
          /\ UNCHANGED <<agg, wa>>
     ELSE IF ~ \E a \in wa : a.id = assignmentId
     THEN /\ resp' = LifeResponse("updateWorkAssignment", 404, 0, assignmentId, FALSE)
          /\ UNCHANGED <<agg, wa>>
     ELSE LET old == CHOOSE a \in wa : a.id = assignmentId
              new == [old EXCEPT
                        !.status = IF status # Null THEN status ELSE @,
                        !.completed_at = IF status \in {"completed", "verified"} THEN TRUE ELSE @,
                        !.notes = IF notes # Null THEN notes ELSE @]
          IN /\ wa' = (wa \ {old}) \cup {new}
             /\ agg' = IF status = Null THEN agg
                       ELSE locationStatus({old.aggregated_location_id},
                                           IF status = "completed" THEN "pending_verification"
                                           ELSE status)
             /\ resp' = LifeResponse("updateWorkAssignment", 200,
                                     old.aggregated_location_id, assignmentId, FALSE)
  /\ UNCHANGED ingestVars

\* verifyLocation of the report controller (dashboard)
verifyLocation(locationId, notes) ==
  /\ IF ~locationExists(locationId)
     THEN /\ resp' = LifeResponse("verifyLocation", 404, locationId, 0, FALSE)
          /\ UNCHANGED <<agg, wa>>
     ELSE /\ agg' = locationVerified({locationId})
          /\ wa' = assignmentsClosed({locationId},
                      {"pending_verification", "in_progress", "assigned"}, "verified",
                      IF notes = Null THEN "Verified from dashboard" ELSE notes)
          /\ resp' = LifeResponse("verifyLocation", 200, locationId, 0, wa' # wa)
  /\ UNCHANGED ingestVars

\* A batch handler runs two statements per listed location on one connection
\* inside a transaction. fault = j > 0: the j-th statement throws (lost
\* connection, lock wait timeout, deadlock victim); fault = 0: none does.
\* lost: the connection is gone when the first statement runs, so that
\* rollback throws as well and the server discards the transaction.
Faults == 0..(2 * MaxBatch)

\* the listed locations whose UPDATE aggregated_locations ran before the fault
locationsDone(locationIds, fault) == {locationIds[i] : i \in 1..(fault \div 2)}

\* the listed locations whose UPDATE work_assignments ran before the fault
assignmentsDone(locationIds, fault) == {locationIds[i] : i \in 1..((fault - 1) \div 2)}

\* Faulty variant: a rollback that keeps what the batch wrote.
batchRolledBack_KeepsWrites(before, written) == written

\* connection.rollback() in the catch block: the table is as it was at
\* beginTransaction, whatever the statements before the failure wrote.
batchRolledBack(before, written) == before

\* batchVerifyLocations of the report controller, one transaction
batchVerifyLocations(locationIds, notes, fault, lost) ==
  /\ fault <= 2 * Len(locationIds)
  /\ lost => fault = 1
  /\ IF locationIds = <<>>
     THEN /\ ~lost
          /\ resp' = OnConnection(LifeResponse("batchVerifyLocations", 400, 0, 0, FALSE), earlyReturn)
          /\ UNCHANGED <<agg, wa>>
     ELSE IF fault # 0
     THEN /\ agg' = batchRolledBack(agg, locationVerified(locationsDone(locationIds, fault)))
          /\ wa' = batchRolledBack(wa, assignmentsClosed(assignmentsDone(locationIds, fault),
                      {"pending_verification", "in_progress", "assigned"}, "verified",
                      IF notes = Null THEN "Batch verified from dashboard" ELSE notes))
          /\ resp' = OnConnection(LifeResponse("batchVerifyLocations", IF lost THEN 0 ELSE 500, 0, 0, FALSE),
                                   caught(lost))
     ELSE /\ ~lost
          /\ agg' = locationVerified(Range(locationIds))
          /\ wa' = assignmentsClosed(Range(locationIds),
                      {"pending_verification", "in_progress", "assigned"}, "verified",
                      IF notes = Null THEN "Batch verified from dashboard" ELSE notes)
          /\ resp' = OnConnection(LifeResponse("batchVerifyLocations", 200, 0, 0, FALSE), committed)
  /\ UNCHANGED ingestVars

\* POST /api/admin/verify/:locationId
verifyWork(locationId, notes) ==
  /\ agg' = locationVerified({locationId})
  /\ wa' = assignmentsClosed({locationId}, {"in_progress"}, "completed", notes)
  /\ resp' = LifeResponse("verifyWork", 200, locationId, 0, FALSE)
  /\ UNCHANGED ingestVars

\* batchVerify of the admin controller, one transaction
batchVerify(locationIds, notes, fault, lost) ==
  /\ fault <= 2 * Len(locationIds)
  /\ lost => fault = 1
  /\ IF locationIds = <<>>
     THEN /\ ~lost
          /\ resp' = OnConnection(LifeResponse("batchVerify", 400, 0, 0, FALSE), earlyReturn)
          /\ UNCHANGED <<agg, wa>>
     ELSE IF fault # 0
     THEN /\ agg' = batchRolledBack(agg, locationVerified(locationsDone(locationIds, fault)))
          /\ wa' = batchRolledBack(wa, assignmentsClosed(assignmentsDone(locationIds, fault),
                      {"assigned", "in_progress"}, "completed", notes))
          /\ resp' = OnConnection(LifeResponse("batchVerify", IF lost THEN 0 ELSE 500, 0, 0, FALSE),
                                   caught(lost))
     ELSE /\ ~lost
          /\ agg' = locationVerified(Range(locationIds))
          /\ wa' = assignmentsClosed(Range(locationIds), {"assigned", "in_progress"},
                                     "completed", notes)
          /\ resp' = OnConnection(LifeResponse("batchVerify", 200, 0, 0, FALSE), committed)
  /\ UNCHANGED ingestVars

\* POST /api/admin/verify/:locationId/reject
rejectVerification(locationId, reason) ==
  /\ wa' = {IF a.aggregated_location_id = locationId /\ a.status = "pending_verification"
            THEN [a EXCEPT !.status = "in_progress", !.admin_notes = reason]
            ELSE a : a \in wa}
  /\ agg' = locationStatus({locationId}, "assigned")
  /\ resp' = LifeResponse("rejectVerification", 200, locationId, 0, FALSE)
  /\ UNCHANGED ingestVars

\* Faulty variant: the job is looked up by its id alone.
jobs_AnyContractor(userId, jobId) == {a \in wa : a.id = jobId}

\* SELECT * FROM work_assignments WHERE id = ? AND contractor_id = ?, with the
\* id of the caller's contractor profile
jobs(userId, jobId) ==
  {a \in wa : a.id = jobId /\ \E c \in contractors : c.user_id = userId /\ a.contractor_id = c.id}

\* PATCH /api/contractor/jobs/:jobId/status. The UPDATE names the column
\* completion_date, which work_assignments does not have: the statement
\* fails and the catch block answers 500.
updateJobStatus(userId, jobId, status, notes) ==
  /\ resp' = LifeResponse("updateJobStatus",
                IF status \notin jobValidStatuses THEN 400
                ELSE IF ~ \E c \in contractors : c.user_id = userId THEN 404
                ELSE IF jobs(userId, jobId) = {} THEN 404
                ELSE 500,
                0, jobId, FALSE)
  /\ UNCHANGED <<agg, wa>>
  /\ UNCHANGED ingestVars

\* ---------------------------------------------------------------- specifications
\* Requests run concurrently.
Next ==
  \/ \E t \in Tx, body \in Bodies : SubmitBegin(t, body) /\ UNCHANGED <<pre, served>>
  \/ \E t \in Tx, pt \in Points, sev \in SevInputs :
       SubmitInsertDetection(t, pt, sev) /\ UNCHANGED <<pre, served>>
  \/ \E t \in Tx : AggWrite(t) /\ UNCHANGED <<pre, served>>
  \/ \E t \in Tx : SubmitCommit(t) /\ UNCHANGED <<pre, served>>
  \/ \E t \in Tx : SubmitFail(t) /\ UNCHANGED <<pre, served>>
  \/ \E t \in Tx : SubmitRollbackFails(t) /\ UNCHANGED <<pre, served>>

Spec == Init /\ [][Next]_vars

\* One request at a time; the history variable records the tables at the
\* start of the call and counts the call's writes to aggregated_locations.
SeqBegin ==
  /\ \E body \in Bodies : SubmitBegin(1, body)
  /\ pre' = [reports |-> reports, dets |-> dets, agg |-> agg, writes |-> 0, touched |-> {}]
  /\ UNCHANGED served

NextSeq ==
  \/ SeqBegin
  \/ \E pt \in Points, sev \in SevInputs : SubmitInsertDetection(1, pt, sev) /\ UNCHANGED <<pre, served>>
  \/ AggWrite(1) /\ pre' = [pre EXCEPT !.writes = IF pc'[1] # "idle" THEN @ + 1 ELSE @]
               /\ UNCHANGED served
  \/ SubmitCommit(1) /\ UNCHANGED <<pre, served>>
  \/ SubmitFail(1) /\ UNCHANGED <<pre, served>>
  \/ SubmitRollbackFails(1) /\ UNCHANGED <<pre, served>>

SpecSeq == Init /\ [][NextSeq]_vars

\* The work lifecycle handlers, one request at a time.
Served == served < MaxRequests /\ served' = served + 1

\* History of a batch: the existing locations it had updated when it failed.
Touched(ids) == pre' = [pre EXCEPT !.touched = {r.id : r \in agg} \cap ids]

NoHistory == Touched({})

NextLife ==
  \/ \E l \in LocationIds, c \in ContractorIds, b \in AssignInputs :
       createWorkAssignment(l, c, b.dueDate, b.notes) /\ Served /\ NoHistory
  \/ \E l \in LocationIds, c \in ContractorIds, b \in AssignInputs :
       assignToContractor(l, c, b.dueDate, b.notes) /\ Served /\ NoHistory
  \/ \E ls \in LocationLists, c \in ContractorIds, b \in AssignInputs, lost \in BOOLEAN :
       batchAssign(ls, c, b.dueDate, b.notes, lost) /\ Served /\ NoHistory
  \/ \E a \in AssignmentIds, s \in StatusInputs, n \in Notes : updateWorkAssignment(a, s, n) /\ Served /\ NoHistory
  \/ \E l \in LocationIds, n \in Notes : verifyLocation(l, n) /\ Served /\ NoHistory
  \/ \E ls \in LocationLists, n \in Notes, f \in Faults, lost \in BOOLEAN :
       batchVerifyLocations(ls, n, f, lost) /\ Served /\ Touched(locationsDone(ls, f))
  \/ \E l \in LocationIds, n \in Notes : verifyWork(l, n) /\ Served /\ NoHistory
  \/ \E ls \in LocationLists, n \in Notes, f \in Faults, lost \in BOOLEAN :
       batchVerify(ls, n, f, lost) /\ Served /\ Touched(locationsDone(ls, f))
  \/ \E l \in LocationIds, n \in Notes : rejectVerification(l, n) /\ Served /\ NoHistory
  \/ \E u \in UserIds, a \in AssignmentIds, s \in StatusInputs, n \in Notes :
       updateJobStatus(u, a, s, n) /\ Served /\ NoHistory

SpecLife == Init /\ [][NextLife]_vars

\* The handlers that take a connection of their own and run a transaction on
\* it (submitReport, batchAssign, batchVerifyLocations, batchVerify), one
\* request at a time.
BatchCall == pc[1] = "idle" /\ served < MaxBatchCalls /\ served' = served + 1 /\ NoHistory

\* The entries of the submissions are all at one point and carry no severity:
\* what the entries say has no part in how the connection is used.
NextPool ==
  \/ SeqBegin
  \/ SubmitInsertDetection(1, PointList[1], NoSev) /\ UNCHANGED <<pre, served>>
  \/ AggWrite(1) /\ pre' = [pre EXCEPT !.writes = IF pc'[1] # "idle" THEN @ + 1 ELSE @]
               /\ UNCHANGED served
  \/ SubmitCommit(1) /\ UNCHANGED <<pre, served>>
  \/ SubmitFail(1) /\ UNCHANGED <<pre, served>>
  \/ SubmitRollbackFails(1) /\ UNCHANGED <<pre, served>>
  \/ \E ls \in LocationLists, c \in ContractorIds, b \in AssignInputs, lost \in BOOLEAN :
       batchAssign(ls, c, b.dueDate, b.notes, lost) /\ BatchCall
  \/ \E ls \in LocationLists, n \in Notes, f \in Faults, lost \in BOOLEAN :
       batchVerifyLocations(ls, n, f, lost) /\ BatchCall
  \/ \E ls \in LocationLists, n \in Notes, f \in Faults, lost \in BOOLEAN :
       batchVerify(ls, n, f, lost) /\ BatchCall

SpecPool == Init /\ [][NextPool]_vars


\* The scoring of a submission on its own: a body with np entries of type
\* 'pothole' and na entries of type 'road_anomaly' is counted, scored, stored
\* and answered; the aggregation of its entries is left out.
ScoredCounts == [np : 0..MaxEntries, na : 0..MaxEntries]

InitScore ==
  /\ reports = {}
  /\ dets = {}
  /\ agg = SeedLocations
  /\ wa = SeedAssignments
  /\ undo = [t \in Tx |-> {}]
  /\ ins = [t \in Tx |-> {}]
  /\ snap = [t \in Tx |-> NoSnap]
  /\ pc = [t \in Tx |-> IF t = 1 THEN "score" ELSE "idle"]
  /\ \E c \in ScoredCounts :
       cur = [t \in Tx |-> IF t = 1 THEN [Idle EXCEPT !.report_id = 1, !.np = c.np, !.na = c.na]
                                   ELSE Idle]
  /\ resp = NoResp
  /\ served = 0
  /\ pre = [reports |-> {}, dets |-> {}, agg |-> SeedLocations, writes |-> 0, touched |-> {}]

SubmitScore ==
  /\ pc[1] = "score"
  /\ reports' = reports \cup
        {reportRow([report_id |-> cur[1].report_id,
                    anomalies |-> [np |-> cur[1].np, na |-> cur[1].na]], 0)}
  /\ resp' = OnConnection(Response(1, "submitReport", 201, cur[1].report_id,
                                   healthScore(cur[1].np, cur[1].na)), committed)
  /\ pc' = [pc EXCEPT ![1] = "idle"]
  /\ cur' = [cur EXCEPT ![1] = Idle]
  /\ UNCHANGED <<dets, agg, wa, undo, ins, snap, served, pre>>

NextScore == SubmitScore

SpecScore == InitScore /\ [][NextScore]_vars

\* The grid key of a request's coordinates on its own. A coordinate is held
\* as the JSON body writes it: sign, whole part, up to five decimals, bare
\* (a number) or quoted (a numeric string).
Coord(q, n, w, f) == [quoted |-> q, neg |-> n, whole |-> w, frac |-> f]

\* written latitudes: around zero, and around 13.06 at several precisions
\* (none lies half way between two 4-decimal values)
LatTexts ==
  {[neg |-> FALSE, whole |-> 0, frac |-> <<0, 0, 0, 0, 1>>],
   [neg |-> TRUE, whole |-> 0, frac |-> <<0, 0, 0, 0, 1>>],
   [neg |-> FALSE, whole |-> 0, frac |-> <<>>],
   [neg |-> TRUE, whole |-> 0, frac |-> <<0, 0, 0, 0>>],
   [neg |-> FALSE, whole |-> 0, frac |-> <<0, 0, 0, 1>>],
   [neg |-> TRUE, whole |-> 0, frac |-> <<0, 0, 0, 0, 9>>],
   [neg |-> FALSE, whole |-> 13, frac |-> <<0, 6>>],
   [neg |-> FALSE, whole |-> 13, frac |-> <<0, 6, 0, 0>>],
   [neg |-> FALSE, whole |-> 13, frac |-> <<0, 6, 0, 0, 3>>],
   [neg |-> FALSE, whole |-> 13, frac |-> <<0, 5, 9, 9, 8>>],
   [neg |-> FALSE, whole |-> 13, frac |-> <<0, 6, 0, 0, 7>>],
   [neg |-> TRUE, whole |-> 13, frac |-> <<0, 6>>]}

LngTexts ==
  {[neg |-> FALSE, whole |-> 80, frac |-> <<2, 8>>],
   [neg |-> FALSE, whole |-> 80, frac |-> <<2, 7, 9, 9, 8>>],
   [neg |-> FALSE, whole |-> 80, frac |-> <<2, 8, 0, 1>>]}

CoordInputs == {Coord(q, t.neg, t.whole, t.frac) : q \in BOOLEAN, t \in LatTexts \cup LngTexts}

RECURSIVE fracValue(_, _)
fracValue(frac, i) ==
  IF i > Len(frac) THEN 0
  ELSE frac[i] * (CASE i = 1 -> 10000 [] i = 2 -> 1000 [] i = 3 -> 100 [] i = 4 -> 10 [] OTHER -> 1)
       + fracValue(frac, i + 1)

\* parseFloat: a number is converted to its text first, a numeric string is
\* read as it stands; the result, in units of 10^-5 degree
parseFloat(c) == (IF c.neg THEN 0 - 1 ELSE 1) * (c.whole * 100000 + fracValue(c.frac, 1))

\* gridId of updateAggregatedLocation for the data of one entry
entryGridId(data) == gridId(parseFloat(data.latitude), parseFloat(data.longitude))

GridEntries ==
  {[latitude |-> Coord(q, a.neg, a.whole, a.frac), longitude |-> Coord(q, b.neg, b.whole, b.frac)] :
     q \in BOOLEAN, a \in LatTexts, b \in LngTexts}

InitGrid ==
  /\ reports = {}
  /\ dets = {}
  /\ agg = SeedLocations
  /\ wa = SeedAssignments
  /\ undo = [t \in Tx |-> {}]
  /\ ins = [t \in Tx |-> {}]
  /\ snap = [t \in Tx |-> NoSnap]
  /\ pc = [t \in Tx |-> IF t = 1 THEN "grid" ELSE "idle"]
  /\ \E d \in GridEntries, e \in GridEntries :
       cur = [t \in Tx |-> [entries |-> IF t = 1 THEN <<d, e>> ELSE <<>>, keys |-> <<>>]]
  /\ resp = NoResp
  /\ served = 0
  /\ pre = [reports |-> {}, dets |-> {}, agg |-> SeedLocations, writes |-> 0, touched |-> {}]

\* the first three lines of updateAggregatedLocation, for each of two entries
GridKeys ==
  /\ pc[1] = "grid"
  /\ cur' = [cur EXCEPT ![1].keys = <<entryGridId(cur[1].entries[1]), entryGridId(cur[1].entries[2])>>]
  /\ pc' = [pc EXCEPT ![1] = "idle"]
  /\ UNCHANGED <<reports, dets, agg, wa, undo, ins, snap, resp, served, pre>>

NextGrid == GridKeys

SpecGrid == InitGrid /\ [][NextGrid]_vars

\* ---------------------------------------------------------------- properties
\* Detection rows of committed reports, and those landing in grid cell g.
CommittedDets == {d \in dets : \E r \in reports : r.report_id = d.report_id /\ r.tx = 0}

DetGrid(d) == gridId(d.latitude, d.longitude)

DetsAt(g) == {d \in CommittedDets : DetGrid(d) = g}

Seeded(g) == \E r \in SeedLocations : r.grid_id = g

SeedRow(g) == CHOOSE r \in SeedLocations : r.grid_id = g

MaxSeverity(S) == CHOOSE s \in S : \A x \in S : severityOrder[s] >= severityOrder[x]

TablesAsBefore == reports = pre.reports /\ dets = pre.dets /\ agg = pre.agg

\* C1: a submitReport call that ends in an error after its transaction began
\* leaves no report row, no detection row and no aggregation write behind:
\* the three tables are exactly as they were when the call began.
C1_SubmitAtomic ==
  (resp.op = "submitReport" /\ resp.code \in {409, 500}) => TablesAsBefore

\* a call failed after it had already merged at least one detection
C1_Witness ==
  resp.op = "submitReport" /\ resp.code = 500 /\ pre.writes >= 1 /\ TablesAsBefore

\* C2: a submission whose report_id is already stored is answered 409 and
\* leaves reports, detections and aggregated locations unchanged.
C2_DuplicateRejected ==
  (resp.op = "submitReport" /\ resp.code # 400
     /\ \E r \in pre.reports : r.report_id = resp.report_id)
  => (resp.code = 409 /\ TablesAsBefore)

\* the stored report had detections aggregated, and its id was submitted again
C2_Witness ==
  /\ resp.op = "submitReport" /\ resp.code = 409
  /\ \E r \in pre.reports : r.report_id = resp.report_id /\ r.total_potholes + r.total_patchy_roads > 0
  /\ \E d \in dets : d.report_id = resp.report_id

\* C3: in the committed tables, report_count of a location equals the number
\* of detections of committed submissions that fall in its grid cell (on top
\* of the count a sample row started with).
C3_ReportCount ==
  \A r \in CommittedAgg :
    r.report_count = (IF Seeded(r.grid_id) THEN SeedRow(r.grid_id).report_count ELSE 0)
                     + Cardinality(DetsAt(r.grid_id))

\* a location created by ingestion has had a second detection merged into it
\* while a rolled-back submission left nothing
C3_Witness ==
  /\ \E r \in CommittedAgg : ~Seeded(r.grid_id) /\ r.report_count = 2
  /\ resp.op = "submitReport" /\ resp.code = 500

\* C4: highest_severity of a committed aggregated location never decreases,
\* also when concurrent submissions interleave their SELECT and UPDATE.
C4_SeverityNeverDecreases ==
  [][\A r \in CommittedAgg : \A q \in CommittedAgg' :
       q.grid_id = r.grid_id =>
         severityOrder[q.highest_severity] >= severityOrder[r.highest_severity]]_vars

\* C5: when submissions run one after another, highest_severity of a location
\* is the maximum of the severities merged into it, in whatever order.
C5_HighestIsMax ==
  pc[1] = "idle" =>
    \A r \in agg :
      r.highest_severity =
        MaxSeverity((IF Seeded(r.grid_id) THEN {SeedRow(r.grid_id).highest_severity} ELSE {})
                    \cup {d.severity : d \in DetsAt(r.grid_id)})

\* one submission merged a pothole and then a road anomaly of lower severity
\* into the cell it created
C5_Witness ==
  /\ pc[1] = "idle"
  /\ \E d1, d2 \in CommittedDets :
       /\ d1.report_id = d2.report_id /\ d1.n < d2.n
       /\ d1.kind = "pothole" /\ d2.kind = "patchy"
       /\ DetGrid(d1) = DetGrid(d2) /\ ~Seeded(DetGrid(d1))
       /\ severityOrder[d1.severity] > severityOrder[d2.severity]

\* C6: there is at most one aggregated location per grid key, and every
\* committed detection is counted in the one row of its grid key.
C6_GridIdentity ==
  /\ \A r1, r2 \in agg : r1.grid_id = r2.grid_id => r1 = r2
  /\ \A d \in CommittedDets : \E r \in CommittedAgg : r.grid_id = DetGrid(d)
  /\ \A r \in CommittedAgg :
       r.total_potholes + r.total_patchy =
         (IF Seeded(r.grid_id)
          THEN SeedRow(r.grid_id).total_potholes + SeedRow(r.grid_id).total_patchy ELSE 0)
         + Cardinality(DetsAt(r.grid_id))

\* two submissions both found the cell absent; one created it, the insert of
\* the other was refused as a duplicate key and its transaction rolled back
C6_Witness ==
  /\ resp.op = "submitReport" /\ resp.code = 409
  /\ ~ \E r \in reports : r.report_id = resp.report_id
  /\ \E r \in CommittedAgg : ~Seeded(r.grid_id)

\* ---------------------------------------------------------------- work lifecycle properties
OpenStatuses == {"assigned", "in_progress", "pending_verification"}

OpenAt(rows, l) == {a \in rows : a.aggregated_location_id = l /\ a.status \in OpenStatuses}

Location(rows, l) == CHOOSE r \in rows : r.id = l

Assignment(rows, id) == CHOOSE a \in rows : a.id = id

\* C7: in every reachable state each aggregated location has at most one work
\* assignment whose status is neither completed nor verified.
C7_OneOpenAssignment ==
  \A r \in agg : Cardinality(OpenAt(wa, r.id)) <= 1

\* C8: createWorkAssignment with a valid contractor on a location that has an
\* open assignment inserts no row; it answers 200 with the id of an open row
\* of that location, which keeps its id and location, carries the request's
\* contractor, due date and notes and has status 'assigned'; every other row
\* is untouched and the location's status is 'assigned'.
C8_AssignUpdatesOpen ==
  [][\A l \in LocationIds, c \in ContractorIds, b \in AssignInputs :
       (/\ createWorkAssignment(l, c, b.dueDate, b.notes)
        /\ c \in {k.id : k \in contractors}
        /\ OpenAt(wa, l) # {})
       => /\ {a.id : a \in wa'} = {a.id : a \in wa}
          /\ Cardinality(wa') = Cardinality(wa)
          /\ resp'.code = 200
          /\ resp'.assignmentId \in {a.id : a \in OpenAt(wa, l)}
          /\ \A a \in wa :
               IF a.id = resp'.assignmentId
               THEN Assignment(wa', a.id) =
                      [a EXCEPT !.contractor_id = c, !.due_date = b.dueDate,
                                !.notes = b.notes, !.status = "assigned"]
               ELSE a \in wa'
          /\ Location(agg', l).status = "assigned"]_vars

\* Reached: a reassignment answered 200 for the seeded assignment after it
\* had been sent back by a rejection; the row now names contractor 2 with the
\* request's date and note and is 'assigned' again, and no row was added.
C8_Witness ==
  /\ resp.op = "createWorkAssignment" /\ resp.code = 200 /\ resp.assignmentId = 1
  /\ wa = {[id |-> 1, aggregated_location_id |-> 2, contractor_id |-> 2,
            due_date |-> "2026-12-01", status |-> "assigned", completed_at |-> FALSE,
            admin_notes |-> "note", notes |-> "note"]}
  /\ Location(agg, 2).status = "assigned"

\* C9: verifyLocation on an existing location answers 200, leaves the location
\* 'verified' with verified_at stamped, and reports assignmentUpdated exactly
\* when an assignment of the location changed, i.e. when the location had an
\* assignment in assigned, in_progress or pending_verification.
C9_VerifyLocation ==
  [][\A l \in LocationIds, n \in Notes :
       (verifyLocation(l, n) /\ \E r \in agg : r.id = l)
       => /\ resp'.code = 200
          /\ Location(agg', l).status = "verified"
          /\ Location(agg', l).verified_at
          /\ resp'.assignmentUpdated <=> (OpenAt(wa, l) # {})
          /\ resp'.assignmentUpdated <=>
               (\E a \in wa : a.aggregated_location_id = l /\ a \notin wa')]_vars

\* Reached: verifyLocation succeeded on a location whose only assignment was
\* already completed (location pending verification before the call): the
\* location is verified and stamped, assignmentUpdated is false.
C9_Witness ==
  /\ resp.op = "verifyLocation" /\ resp.code = 200 /\ ~resp.assignmentUpdated
  /\ Location(agg, resp.locationId).status = "verified"
  /\ Location(agg, resp.locationId).verified_at
  /\ \E a \in wa : a.aggregated_location_id = resp.locationId /\ a.status = "completed"

\* C10: each verify operation (verifyLocation, verifyWork, batchVerifyLocations,
\* batchVerify) that completes moves every assigned, in_progress or
\* pending_verification assignment of each location it names to 'verified'
\* with completed_at stamped, leaving those locations without open assignment.
VerifiedAll(ids) ==
  \A a \in wa : (a.aggregated_location_id \in ids /\ a.status \in OpenStatuses)
    => /\ Assignment(wa', a.id).status = "verified"
       /\ Assignment(wa', a.id).completed_at

C10_VerifyClosesAssignments ==
  [][/\ \A l \in LocationIds, n \in Notes :
          ((verifyLocation(l, n) \/ verifyWork(l, n)) /\ resp'.code = 200)
          => (VerifiedAll({l}) /\ OpenAt(wa', l) = {})
     /\ \A ls \in LocationLists, n \in Notes :
          ((batchVerifyLocations(ls, n, 0, FALSE) \/ batchVerify(ls, n, 0, FALSE)) /\ resp'.code = 200)
          => (VerifiedAll(Range(ls)) /\ \A l \in Range(ls) : OpenAt(wa', l) = {})]_vars

\* C11: rejectVerification on a location without an assignment in status
\* 'pending_verification' changes no assignment and no location; when there
\* is one, it becomes 'in_progress' with the reason as admin note and the
\* location becomes 'assigned'.
PendingAt(rows, l) ==
  {a \in rows : a.aggregated_location_id = l /\ a.status = "pending_verification"}

C11_RejectNoOp ==
  [][\A l \in LocationIds, n \in Notes :
       rejectVerification(l, n)
       => IF PendingAt(wa, l) = {}
          THEN wa' = wa /\ agg' = agg
          ELSE /\ \A a \in PendingAt(wa, l) :
                    Assignment(wa', a.id) = [a EXCEPT !.status = "in_progress", !.admin_notes = n]
               /\ Location(agg', l).status = "assigned"]_vars

\* C12: a status update to a valid value s leaves the assignment with status
\* s, its location with 'pending_verification' for completed, 'verified' for
\* verified and s otherwise, and completed_at stamped exactly when s is
\* completed or verified; on the dashboard path (updateWorkAssignment, for an
\* existing assignment) and on the contractor path (updateJobStatus, for a
\* job of the caller's contractor profile).
derivedLocationStatus(s) ==
  IF s = "completed" THEN "pending_verification" ELSE s

StatusUpdated(id, s) ==
  LET old == Assignment(wa, id)
      new == Assignment(wa', id)
  IN /\ new.status = s
     /\ new.completed_at = (IF s \in {"completed", "verified"} THEN TRUE ELSE old.completed_at)
     /\ Location(agg', old.aggregated_location_id).status = derivedLocationStatus(s)

OwnJob(u, id) ==
  \E c \in contractors, a \in wa : c.user_id = u /\ a.id = id /\ a.contractor_id = c.id

AdminStatusUpdate ==
  \A id \in {a.id : a \in wa}, s \in OpenStatuses \cup {"completed", "verified"}, n \in Notes :
    updateWorkAssignment(id, s, n) => StatusUpdated(id, s)

ContractorStatusUpdate ==
  \A u \in UserIds, id \in {a.id : a \in wa},
     s \in OpenStatuses \cup {"completed", "verified"}, n \in Notes :
    (updateJobStatus(u, id, s, n) /\ OwnJob(u, id)) => StatusUpdated(id, s)

C12_StatusUpdate == [][AdminStatusUpdate /\ ContractorStatusUpdate]_vars

\* C13: a batch verify (batchVerifyLocations, batchVerify) in which a statement
\* throws answers 500 and leaves every location and every assignment as it
\* was before the call, those of the items already processed included.
C13_BatchVerifyAllOrNothing ==
  [][(resp'.op \in {"batchVerifyLocations", "batchVerify"} /\ resp'.code = 500)
     => (agg' = agg /\ wa' = wa)]_vars

\* Reached: a batch verify failed after its UPDATE of location 2 had run;
\* location 2 is still 'assigned' and unstamped, its assignment still open.
C13_Witness ==
  /\ resp.op = "batchVerifyLocations" /\ resp.code = 500
  /\ 2 \in pre.touched
  /\ Location(agg, 2).status = "assigned" /\ ~Location(agg, 2).verified_at
  /\ OpenAt(wa, 2) # {}

\* C14: batchAssign with an active contractor treats each listed location as
\* the single assign (createWorkAssignment) does: a listed location that does
\* not exist is answered 404; otherwise every listed location ends 'assigned',
\* a location that had an open assignment gets no new row and one that had
\* none gets exactly one.
RowsAt(rows, l) == {a \in rows : a.aggregated_location_id = l}

C14_BatchAssignPerItem ==
  [][\A ls \in LocationLists \ {<<>>}, c \in {k.id : k \in contractors}, b \in AssignInputs :
       batchAssign(ls, c, b.dueDate, b.notes, FALSE)
       => IF \E i \in DOMAIN ls : ~ \E r \in agg : r.id = ls[i]
          THEN resp'.code = 404
          ELSE \A l \in Range(ls) :
                 /\ Location(agg', l).status = "assigned"
                 /\ Cardinality(RowsAt(wa', l)) =
                      Cardinality(RowsAt(wa, l)) + (IF OpenAt(wa, l) = {} THEN 1 ELSE 0)]_vars

\* C15: the health score of an accepted submission with p potholes and a road
\* anomalies, as stored with the report and as returned in the 201 answer, is
\* max(0, 100 - 15 p - 5 a), a value from 0 to 100.
expectedScore(p, a) == IF 15 * p + 5 * a >= 100 THEN 0 ELSE 100 - 15 * p - 5 * a

C15_HealthScore ==
  /\ \A r \in reports :
       /\ r.health_score = 100 * expectedScore(r.total_potholes, r.total_patchy_roads)
       /\ r.health_score >= 0 /\ r.health_score <= 100 * 100
  /\ (resp.op = "submitReport" /\ resp.code = 201)
     => /\ resp.healthScore \in 0..100
        /\ \A r \in reports : r.report_id = resp.report_id
             => resp.healthScore = expectedScore(r.total_potholes, r.total_patchy_roads)

\* Reached: accepted submissions whose penalty exceeds 100 (7 potholes and 1
\* road anomaly: 110), stored and answered with score 0.
C15_Witness ==
  /\ resp.op = "submitReport" /\ resp.code = 201 /\ resp.healthScore = 0
  /\ \E r \in reports : /\ r.report_id = resp.report_id
                        /\ r.total_potholes = 7 /\ r.total_patchy_roads = 1
                        /\ r.health_score = 0

\* C16: in every committed grid cell that ingestion created, total_potholes is
\* the number of committed pothole detections of the cell, total_patchy the
\* number of its committed road anomalies and report_count their sum; a cell
\* made of one High pothole and one Low road anomaly of one submission has
\* total_potholes 1, total_patchy 1, highest_severity High and report_count 2.
KindAt(g, kind) == {d \in DetsAt(g) : d.kind = kind}

C16_CellCounts ==
  \A r \in CommittedAgg : ~Seeded(r.grid_id)
    => /\ r.total_potholes = Cardinality(KindAt(r.grid_id, "pothole"))
       /\ r.total_patchy = Cardinality(KindAt(r.grid_id, "patchy"))
       /\ r.report_count = r.total_potholes + r.total_patchy
       /\ (/\ Cardinality(DetsAt(r.grid_id)) = 2
           /\ \E d1 \in KindAt(r.grid_id, "pothole"), d2 \in KindAt(r.grid_id, "patchy") :
                d1.report_id = d2.report_id /\ d1.severity = "High" /\ d2.severity = "Low")
          => (/\ r.total_potholes = 1 /\ r.total_patchy = 1
              /\ r.highest_severity = "High" /\ r.report_count = 2)

\* Reached: a committed submission with a High pothole and a Low road anomaly
\* in one cell that did not exist before; the cell reads 1, 1, High, 2.
C16_Witness ==
  /\ resp.op = "submitReport" /\ resp.code = 201
  /\ \E r \in CommittedAgg :
       /\ ~Seeded(r.grid_id)
       /\ DetsAt(r.grid_id) = {d \in dets : d.report_id = resp.report_id}
       /\ \E d1 \in KindAt(r.grid_id, "pothole"), d2 \in KindAt(r.grid_id, "patchy") :
            d1.severity = "High" /\ d2.severity = "Low"
       /\ r.total_potholes = 1 /\ r.total_patchy = 1
       /\ r.highest_severity = "High" /\ r.report_count = 2

\* C17: verifyLocation and verifyWork on a location id that no location has
\* answer 404 and change no location and no assignment.
C17_VerifyNotFound ==
  [][(/\ resp'.op \in {"verifyLocation", "verifyWork"}
      /\ ~ \E r \in agg : r.id = resp'.locationId)
     => (resp'.code = 404 /\ agg' = agg /\ wa' = wa)]_vars

\* ---------------------------------------------------------------- connection properties
TransactionalOps == {"submitReport", "batchAssign", "batchVerifyLocations", "batchVerify"}

\* C18: a submitReport, batchAssign, batchVerify or batchVerifyLocations call
\* that is rejected with 400 for a missing required field has acquired no
\* connection and begun no transaction.
C18_ValidationBeforeStorage ==
  (resp.op \in TransactionalOps /\ resp.code = 400)
    => (resp.conn.acquired = 0 /\ resp.conn.begun = 0)

\* C19: a submitReport, batchAssign, batchVerify or batchVerifyLocations call
\* that has acquired a connection has released it exactly once when it ends,
\* whether it committed, rejected the request with 400 or 404, caught an
\* error and rolled back, or left through a rollback that threw.
C19_ReleasedOnce ==
  (resp.op \in TransactionalOps /\ resp.conn.acquired > 0)
    => (resp.conn.acquired = 1 /\ resp.conn.released = 1)

\* a batchVerify whose rollback threw: no response, transaction not ended by
\* the handler, connection released once
C19_Witness ==
  /\ resp.op = "batchVerify"
  /\ resp.code = 0
  /\ resp.conn = [acquired |-> 1, begun |-> 1, ended |-> 0, released |-> 1]
  /\ \E r \in reports : r.tx = 0

\* ---------------------------------------------------------------- terminal status
\* C20: a location whose status is 'verified' keeps that status through every
\* later work lifecycle operation (assign, batch assign, assignment status
\* update, rejection of a verification, contractor job update).
C20_VerifiedTerminal ==
  [][\A r \in agg : r.status = "verified"
        => \E q \in agg' : q.id = r.id /\ q.status = "verified"]_vars

\* ---------------------------------------------------------------- grid key properties
\* a written coordinate rounded to 4 decimals, as a number of 10^-4 degrees
Rounded4(c) ==
  LET v == c.whole * 100000 + fracValue(c.frac, 1)
      m == (v + 5) \div 10
  IN IF c.neg THEN 0 - m ELSE m

SameRounded(d, e) ==
  /\ Rounded4(d.latitude) = Rounded4(e.latitude)
  /\ Rounded4(d.longitude) = Rounded4(e.longitude)

\* C21: two entries get the same grid key exactly when their latitudes and
\* their longitudes round to the same 4-decimal numbers, whatever the
\* precision, the sign of a value that rounds to zero, or the quoting of the
\* written coordinates.
C21_GridKeyOfRounded ==
  (pc[1] = "idle" /\ cur[1].keys # <<>>)
    => (SameRounded(cur[1].entries[1], cur[1].entries[2]) <=> cur[1].keys[1] = cur[1].keys[2])

\* ---------------------------------------------------------------- concurrent submissions
Finished == \A t \in Tx : pc[t] = "idle"

SeedOf(g) ==
  IF Seeded(g) THEN SeedRow(g)
  ELSE [total_potholes |-> 0, total_patchy |-> 0, report_count |-> 0]

\* C22: once the concurrent submissions have finished, a cell that holds
\* detections of two committed submissions with different report ids counts
\* every one of them: total_potholes, total_patchy and report_count are what
\* the cell started with plus the committed detections of its grid key.
C22_NoLostMerge ==
  Finished =>
    \A r \in agg :
      (\E d1, d2 \in DetsAt(r.grid_id) : d1.report_id # d2.report_id)
        => /\ r.total_potholes = SeedOf(r.grid_id).total_potholes
                                 + Cardinality(KindAt(r.grid_id, "pothole"))
           /\ r.total_patchy = SeedOf(r.grid_id).total_patchy
                               + Cardinality(KindAt(r.grid_id, "patchy"))
           /\ r.report_count = SeedOf(r.grid_id).report_count + Cardinality(DetsAt(r.grid_id))

\* Both submissions merged into a sample cell and committed, and their
\* read-then-write steps were interleaved: the cell's severity is below that
\* of a committed detection, which only a write computed from a stale read
\* leaves behind; the counts hold both detections all the same.
C22_Witness ==
  /\ Finished
  /\ \E r \in agg :
       /\ Seeded(r.grid_id)
       /\ \E d1, d2 \in DetsAt(r.grid_id) :
            /\ d1.report_id # d2.report_id
            /\ severityOrder[d1.severity] > severityOrder[r.highest_severity]
       /\ r.report_count = SeedRow(r.grid_id).report_count + 2

\* C23: submitReport answers 409 only when a report with the submitted
\* report_id is stored; a duplicate grid key met by a submission whose
\* report_id is new is not answered as a duplicate report.
C23_ConflictMeansStoredReport ==
  (resp.op = "submitReport" /\ resp.code = 409)
    => \E r \in reports : r.report_id = resp.report_id /\ r.tx = 0

StoredOnce ==
  /\ \A r1, r2 \in reports : r1.report_id = r2.report_id => r1 = r2
  /\ \A r \in reports : r.tx = 0 =>
       Cardinality({d \in dets : d.report_id = r.report_id}) = r.total_potholes + r.total_patchy_roads

RejectedAtInsert(t) == pc[t] = "idle" /\ resp'.t = t /\ resp'.code = 409

\* C24: of the submissions that carry one report_id, at most one is stored:
\* there is never a second report row of the id, open or committed; a
\* submission whose INSERT INTO reports meets the id is answered 409 only
\* once the other one has committed, and leaves every table as it was; a
\* submission that starts when the id is committed is answered 409; and a
\* committed report holds exactly the detections it announced.
C24_SameIdOnce ==
  [][/\ StoredOnce'
     /\ \A t \in Tx :
          /\ RejectedAtInsert(t) =>
               /\ \E r \in reports : r.report_id = resp'.report_id /\ r.tx = 0
               /\ reports' = reports /\ dets' = dets /\ agg' = agg
          /\ (/\ pc[t] = "idle" /\ resp'.t = t /\ resp'.code # 400
              /\ \E r \in reports : r.report_id = resp'.report_id /\ r.tx = 0)
               => resp'.code = 409]_vars

\* the second submission of report id 1 was answered 409 by the connection
\* that did not store it; the report is stored once with its two detections,
\* both merged once into one new cell
C24_Witness ==
  /\ resp.op = "submitReport" /\ resp.code = 409 /\ resp.t = 2 /\ resp.report_id = 1
  /\ \E r \in reports : r.report_id = 1 /\ r.tx = 0 /\ r.total_potholes + r.total_patchy_roads = 2
  /\ Cardinality({d \in dets : d.report_id = 1}) = 2
  /\ \E c \in agg : ~Seeded(c.grid_id) /\ c.report_count = 2

\* ---------------------------------------------------------------- aggregation frame
\* request t runs the UPDATE of updateAggregatedLocation in this step
Merges(t) == pc[t] = "write" /\ cur[t].sel # NoRow /\ pc'[t] \in {"det", "commit"}

\* C25: the merge of a detection into an existing cell adds and removes no
\* location, leaves status, verified_at, first_reported_at, grid key, latitude
\* and longitude of every location as they were, and leaves the work
\* assignments as they were, whatever the status of the cell.
C25_MergeFrame ==
  [][(\E t \in Tx : Merges(t))
       => /\ wa' = wa
          /\ {r.id : r \in agg'} = {r.id : r \in agg}
          /\ \A r \in agg : \A q \in agg' : q.id = r.id =>
               /\ q.status = r.status
               /\ q.verified_at = r.verified_at
               /\ q.first_reported_at = r.first_reported_at
               /\ q.grid_id = r.grid_id
               /\ q.latitude = r.latitude
               /\ q.longitude = r.longitude]_vars

\* sample location 4 was verified by a batch, and the submission now running
\* has merged one detection into it: it is still verified, with its stamp
C25_Witness ==
  /\ pc[1] \in {"det", "commit"}
  /\ pre.writes = 1
  /\ \E r \in agg :
       /\ r.id = 4 /\ r.status = "verified" /\ r.verified_at
       /\ r.first_reported_at = "seed"
       /\ r.report_count = SeedRow(r.grid_id).report_count + 1
  /\ wa # {}

\* ---------------------------------------------------------------- severity default
\* C26: an entry whose severity is missing or is none of Low, Medium, High
\* does not fail the submission: it is stored and carried into the
\* aggregation as Medium.
C26_SeverityDefault ==
  [][\A pt \in Points, sev \in SevInputs \ Severities :
       SubmitInsertDetection(1, pt, sev)
         => /\ pc'[1] = "write"
            /\ cur'[1].det.severity = "Medium"
            /\ resp'.code # 500]_vars

\* ---------------------------------------------------------------- contractor jobs
\* C27: when a contractor sets a job of their own to 'completed' through
\* updateJobStatus, the call succeeds, the assignment becomes 'completed' and
\* its location becomes 'fixed'.
C27_CompletionFixes ==
  [][\A u \in UserIds, id \in {a.id : a \in wa}, n \in Notes :
       (updateJobStatus(u, id, "completed", n) /\ OwnJob(u, id))
         => /\ resp'.code = 200
            /\ Assignment(wa', id).status = "completed"
            /\ Location(agg', Assignment(wa, id).aggregated_location_id).status = "fixed"]_vars

\* ---------------------------------------------------------------- transaction end
\* C28: a submitReport, batchAssign, batchVerify or batchVerifyLocations call
\* that answers its request has ended the transaction it began, by one commit
\* or one rollback, before it released the connection; this includes the
\* calls answered 400 or 404.
C28_EndedBeforeRelease ==
  (resp.op \in TransactionalOps /\ resp.code # 0 /\ resp.conn.released > 0)
    => (resp.conn.begun = 1 /\ resp.conn.ended = 1)

\* ---------------------------------------------------------------- verification stamp
\* C29: every location whose status is 'verified' has a verified_at stamp,
\* whichever operation verified it.
C29_VerifiedIsStamped == \A r \in agg : r.status = "verified" => r.verified_at

\* C30: updateJobStatus with a status it does not accept answers 400, and
\* with an accepted status for a job that is not an assignment of the
\* caller's contractor profile (or from a caller without a profile) answers
\* 404; in both cases no work assignment and no location changes.
C30_OwnJobsOnly ==
  [][resp'.op = "updateJobStatus" =>
       \A u \in UserIds, id \in AssignmentIds, s \in StatusInputs, n \in Notes :
         updateJobStatus(u, id, s, n)
           => /\ s \notin {"assigned", "in_progress", "completed", "verified"}
                   => (resp'.code = 400 /\ wa' = wa /\ agg' = agg)
              /\ (s \in {"assigned", "in_progress", "completed", "verified"} /\ ~OwnJob(u, id))
                   => (resp'.code = 404 /\ wa' = wa /\ agg' = agg)]_vars

\* a job update was answered 404 for an assignment that exists and belongs
\* to contractor 2, whose profile no caller has
C30_Witness ==
  /\ resp.op = "updateJobStatus" /\ resp.code = 404
  /\ \E a \in wa : a.id = resp.assignmentId /\ a.contractor_id = 2
                   /\ a.status \in OpenStatuses

====
